---------------------------- MODULE Spec2Model ----------------------------
(***************************************************************************)
(* A model of the Sudoku class of src/src/model/sudoku.model.ts: topology, *)
(* candidate store seeding, the assign/eliminate propagation engine, the   *)
(* depth-first search, solve, and generate.                                *)
(*                                                                         *)
(* Representation.  A character is a one-character string.  A JavaScript   *)
(* string (a board, a candidate string) is the sequence of its characters, *)
(* so 1-based position i here is 0-based index i-1 in the code.  A square  *)
(* is named by its 1-based position in this.squares (row-major: 1 is "A1", *)
(* 9 is "A9", 10 is "B1", 81 is "I9"); a candidates map is the sequence of *)
(* the 81 candidate strings in that order.  A value the code returns as    *)
(* `false` is a record with ok = FALSE; the store the call mutated is kept *)
(* beside it, as the code's in-place mutation leaves it.                   *)
(***************************************************************************)
EXTENDS Integers, Sequences, FiniteSets, TLC

\* ------------------------------------------------------------------------
\* Program constants (sudoku.model.ts:7-28)
\* ------------------------------------------------------------------------

DIGITS == <<"1", "2", "3", "4", "5", "6", "7", "8", "9">>

BLANK_CHAR == "."

MIN_GIVENS == 17

NR_SQUARES == 81

ROWS == 1..9

COLS == 1..9

\* this.squares = _cross(ROWS, COLS): the square of row r, column c is the
\* (r-1)*9 + c -th element.
Sq(r, c) == (r - 1) * 9 + c

squares == [i \in 1..NR_SQUARES |-> i]

BLANK_BOARD == [i \in 1..NR_SQUARES |-> BLANK_CHAR]

\* ------------------------------------------------------------------------
\* Bounds of the model
\* ------------------------------------------------------------------------

\* A run of _assign or _eliminate is followed for at most 2^LogMaxSteps loop
\* iterations.  A run removes at most 81 * 9 candidates and each removal
\* starts at most two loops of at most 20 iterations and three _assign loops
\* of at most 8, so 2^16 is never reached.
LogMaxSteps == 16

\* A run of _search is followed for at most 2^LogMaxBranches branch digits.
LogMaxBranches == 12

\* The boards given to solve include the solved grid with every set of at
\* most MaxBlanked squares of BlankPool blanked.
MaxBlanked == 4

\* The boards given to solve include those with MinWindow..MaxWindow givens
\* in consecutive squares.
MinWindow == 15

MaxWindow == 18

\* The completions of a board are enumerated, to judge what solve returned,
\* when it has at most MaxEnumBlanks blank squares.
MaxEnumBlanks == 50

\* ------------------------------------------------------------------------
\* String helpers
\* ------------------------------------------------------------------------

\* _in(v, seq): seq.indexOf(v) !== -1
In(v, seq) == \E i \in 1..Len(seq) : seq[i] = v

RECURSIVE IndexFrom(_, _, _)
\* seq.indexOf(v) searched from position i; 0 stands for the code's -1.
IndexFrom(seq, v, i) ==
    IF i > Len(seq) THEN 0
    ELSE IF seq[i] = v THEN i
    ELSE IndexFrom(seq, v, i + 1)

\* str.replace(val, ''): the first occurrence of val removed, if any.
Replace(str, val) ==
    LET i == IndexFrom(str, val, 1)
    IN  IF i = 0 THEN str
        ELSE SubSeq(str, 1, i - 1) \o SubSeq(str, i + 1, Len(str))

\* ------------------------------------------------------------------------
\* Topology
\* ------------------------------------------------------------------------

\* _get_all_units: the 9 rows, then the 9 columns, then the 9 boxes, each in
\* _cross order.
units ==
    [u \in 1..27 |->
        IF u <= 9 THEN [k \in 1..9 |-> Sq(u, k)]
        ELSE IF u <= 18 THEN [k \in 1..9 |-> Sq(k, u - 9)]
        ELSE LET b  == u - 19
                 r0 == 3 * (b \div 3)
                 c0 == 3 * (b % 3)
             IN  [k \in 1..9 |-> Sq(r0 + ((k - 1) \div 3) + 1, c0 + ((k - 1) % 3) + 1)]]

\* _get_square_units_map: for each square the units that contain it, in the
\* order of `units`.
square_units_map ==
    [s \in 1..NR_SQUARES |->
        SelectSeq(units, LAMBDA unit : IndexFrom(unit, s, 1) # 0)]

RECURSIVE PeersOf(_, _, _, _)
\* The double loop of _get_square_peers_map for one square: walk the
\* concatenation of its units, pushing a square not yet pushed and not itself.
PeersOf(s, cells, i, acc) ==
    IF i > Len(cells) THEN acc
    ELSE IF IndexFrom(acc, cells[i], 1) = 0 /\ cells[i] # s
         THEN PeersOf(s, cells, i + 1, Append(acc, cells[i]))
         ELSE PeersOf(s, cells, i + 1, acc)

square_peers_map ==
    [s \in 1..NR_SQUARES |->
        PeersOf(s, square_units_map[s][1] \o square_units_map[s][2]
                   \o square_units_map[s][3], 1, <<>>)]

\* ------------------------------------------------------------------------
\* Propagation engine
\* ------------------------------------------------------------------------

\* A run of the propagation engine.  _assign and _eliminate are mutually
\* recursive and mutate one candidates map in place; the run is the map c,
\* the stack stk of the loops that are suspended in a call (innermost last),
\* and ok, FALSE once a call has returned false.  Every caller returns false
\* as soon as its callee does (lines 276, 312, 340), so a contradiction ends
\* the whole run and leaves c as it was mutated so far.
\*   [op |-> "assign", square, vals, i]  _assign's loop, lines 273-279, about
\*                                       to eliminate vals[i] (vals: other_vals)
\*   [op |-> "peers", square, vals, i]   _eliminate's loop, lines 309-315, about
\*                                       to eliminate vals[1] (target_val)
\*                                       from the i-th peer of square
\*   [op |-> "units", square, vals, i]   _eliminate's loop, lines 323-344, about
\*                                       to look at the i-th unit of square
\*                                       for vals[1] (val)
Frame(op, square, vals, i) == [op |-> op, square |-> square, vals |-> vals, i |-> i]

Push(stk, f) == Append(stk, f)

Pop(stk) == SubSeq(stk, 1, Len(stk) - 1)

Top(stk) == stk[Len(stk)]

\* CallAssign with line 269 wrong: val is not taken out of other_vals.
CallAssign_KeepsVal(m, square, val) ==
    [m EXCEPT !.stk = Push(@, Frame("assign", square, m.c[square], 1))]

\* CallAssign writing val into the square instead of eliminating the other
\* values.
CallAssign_Overwrites(m, square, val) == [m EXCEPT !.c[square] = <<val>>]

\* CallAssign returning at once, as if it had succeeded, when val is not a
\* candidate of square.
CallAssign_IgnoresAbsent(m, square, val) ==
    IF ~In(val, m.c[square]) THEN m
    ELSE [m EXCEPT !.stk = Push(@, Frame("assign", square, Replace(m.c[square], val), 1))]

\* A call _assign(candidates, square, val) made in run m: other_vals is
\* taken from the map as it is at the call (line 269).
CallAssign(m, square, val) ==
    [m EXCEPT !.stk = Push(@, Frame("assign", square, Replace(m.c[square], val), 1))]

\* CallEliminate without the loop of lines 306-316: a square's last candidate
\* is not eliminated from its peers.
CallEliminate_NoPeers(m, square, val) ==
    IF ~In(val, m.c[square]) THEN m
    ELSE LET cs == Replace(m.c[square], val)
             c1 == [m.c EXCEPT ![square] = cs]
         IN  IF Len(cs) = 0
             THEN [c |-> c1, ok |-> FALSE, stk |-> <<>>]
             ELSE [c |-> c1, ok |-> TRUE,
                   stk |-> Push(m.stk, Frame("units", square, <<val>>, 1))]

\* A call _eliminate(candidates, square, val) made in run m, up to its first
\* nested call: lines 297-320.  The loops over the peers (if one candidate
\* is left) and then over the units are left on the stack.
CallEliminate(m, square, val) ==
    IF ~In(val, m.c[square]) THEN m
    ELSE LET cs == Replace(m.c[square], val)
             c1 == [m.c EXCEPT ![square] = cs]
             nr_candidates == Len(cs)
             units_loop == Push(m.stk, Frame("units", square, <<val>>, 1))
         IN  IF nr_candidates = 1
             THEN [c |-> c1, ok |-> TRUE,
                   stk |-> Push(units_loop, Frame("peers", square, cs, 1))]
             ELSE IF nr_candidates = 0
             THEN [c |-> c1, ok |-> FALSE, stk |-> <<>>]
             ELSE [c |-> c1, ok |-> TRUE, stk |-> units_loop]

\* One iteration of the innermost suspended loop.
Step(m) ==
    LET f == Top(m.stk)
        rest == Pop(m.stk)
        next == [m EXCEPT !.stk = Push(rest, [f EXCEPT !.i = @ + 1])]
    IN  IF f.op = "assign"
        THEN IF f.i > Len(f.vals) THEN [m EXCEPT !.stk = rest]
             ELSE CallEliminate(next, f.square, f.vals[f.i])
        ELSE IF f.op = "peers"
        THEN IF f.i > Len(square_peers_map[f.square]) THEN [m EXCEPT !.stk = rest]
             ELSE CallEliminate(next, square_peers_map[f.square][f.i], f.vals[1])
        ELSE IF f.i > Len(square_units_map[f.square]) THEN [m EXCEPT !.stk = rest]
             ELSE LET unit == square_units_map[f.square][f.i]
                      val_places ==
                          SelectSeq(unit, LAMBDA unit_square : In(f.vals[1], m.c[unit_square]))
                  IN  IF Len(val_places) = 0
                      THEN [m EXCEPT !.ok = FALSE, !.stk = <<>>]
                      ELSE IF Len(val_places) = 1
                      THEN CallAssign(next, val_places[1], f.vals[1])
                      ELSE next

Returned(m) == m.stk = <<>>

RECURSIVE RunSteps(_, _)
\* Up to 2^k iterations, or until the outermost call has returned.
RunSteps(m, k) ==
    IF Returned(m) THEN m
    ELSE IF k = 0 THEN Step(m)
    ELSE RunSteps(RunSteps(m, k - 1), k - 1)

\* What _assign, _eliminate and _get_candidates_map return: the candidates
\* map (ok) or false (~ok); c is the map as the call left it.
Ret(ok, c) == [ok |-> ok, c |-> c]

\* _assign(candidates, square, val), run to its return.
Assign(c, square, val) ==
    LET m == RunSteps(CallAssign([c |-> c, ok |-> TRUE, stk |-> <<>>], square, val), LogMaxSteps)
    IN  Ret(m.ok, m.c)

\* _eliminate(candidates, square, val), run to its return.
Eliminate(c, square, val) ==
    LET m == RunSteps(CallEliminate([c |-> c, ok |-> TRUE, stk |-> <<>>], square, val), LogMaxSteps)
    IN  Ret(m.ok, m.c)

\* ------------------------------------------------------------------------
\* Board validation and candidate store seeding
\* ------------------------------------------------------------------------

\* What validate_board gives for a board it accepts (it returns true); for
\* the others it gives the ErrorCode member it throws.
VALID == "valid"

\* validate_board with '0' taken for a blank.
validate_board_ZeroIsBlank(board) ==
    IF Len(board) = 0 THEN "ERR_BOARD_EMPTY"
    ELSE IF Len(board) # NR_SQUARES THEN "ERR_BOARD_SIZE_INVALID"
    ELSE IF \E i \in 1..Len(board) :
                ~In(board[i], DIGITS) /\ board[i] # BLANK_CHAR /\ board[i] # "0"
         THEN "ERR_BOARD_CHARACTER_INVALID"
    ELSE VALID

\* validate_board.  A board is a string here, so `!board` is the empty
\* string.
validate_board(board) ==
    IF Len(board) = 0 THEN "ERR_BOARD_EMPTY"
    ELSE IF Len(board) # NR_SQUARES THEN "ERR_BOARD_SIZE_INVALID"
    ELSE IF \E i \in 1..Len(board) : ~In(board[i], DIGITS) /\ board[i] # BLANK_CHAR
         THEN "ERR_BOARD_CHARACTER_INVALID"
    ELSE VALID

\* The map _get_candidates_map starts from: every digit in every square.
AllCandidates == [i \in 1..NR_SQUARES |-> DIGITS]

RECURSIVE AssignGivens(_, _, _, _)
\* _get_candidates_map, lines 168-179, for the squares lo..hi in the order of
\* this.squares: assign each non-blank value, returning false at the first
\* assignment that fails.  (The range is split in two only to keep the
\* evaluation shallow: the squares are still visited in order.)
AssignGivens(r, board, lo, hi) ==
    IF ~r.ok THEN r
    ELSE IF lo = hi
    THEN IF In(board[lo], DIGITS) THEN Assign(r.c, lo, board[lo]) ELSE r
    ELSE LET mid == (lo + hi) \div 2
         IN  AssignGivens(AssignGivens(r, board, lo, mid), board, mid + 1, hi)

\* What _get_candidates_map comes to: the candidates map (ok), false (~ok,
\* c being the map as the failed _assign left it), or the ErrorCode member
\* that validate_board threw (thrown, "" if it threw none).
MapResult(r, thrown) == [ok |-> r.ok, c |-> r.c, thrown |-> thrown]

\* get_candidates_map with its loop one square short: the given of the last
\* square is not assigned.
get_candidates_map_SkipsLast(board) ==
    IF validate_board(board) # VALID
    THEN MapResult(Ret(FALSE, <<>>), validate_board(board))
    ELSE MapResult(AssignGivens(Ret(TRUE, AllCandidates), board, 1, NR_SQUARES - 1), "")

\* _get_candidates_map(board): validate_board(board) is called first (line
\* 157) and what it throws leaves _get_candidates_map.
get_candidates_map(board) ==
    IF validate_board(board) # VALID
    THEN MapResult(Ret(FALSE, <<>>), validate_board(board))
    ELSE MapResult(AssignGivens(Ret(TRUE, AllCandidates), board, 1, NR_SQUARES), "")

\* ------------------------------------------------------------------------
\* Search
\* ------------------------------------------------------------------------

Max(S) == CHOOSE x \in S : \A y \in S : y <= x

Min(S) == CHOOSE x \in S : \A y \in S : x <= y

\* _search, lines 198-207: the largest number of candidates of a square.
MaxNrCandidates(c) == Max({0} \cup {Len(c[s]) : s \in 1..NR_SQUARES})

\* _search, lines 213-222: the first square, in the order of this.squares,
\* among those with the fewest candidates above one; 0 for the code's null.
MinCandidatesSquare(c) ==
    LET open == {s \in 1..NR_SQUARES : Len(c[s]) > 1 /\ Len(c[s]) < 10}
    IN  IF open = {} THEN 0
        ELSE LET min_nr_candidates == Min({Len(c[s]) : s \in open})
             IN  Min({s \in open : Len(c[s]) = min_nr_candidates})

Reversed(str) == [i \in 1..Len(str) |-> str[Len(str) + 1 - i]]

\* BranchOrder that ignores reverse.
BranchOrder_Ascending(min_candidates, reverse) == min_candidates

\* BranchOrder that gives up after the first digit.
BranchOrder_FirstOnly(min_candidates, reverse) ==
    IF ~reverse THEN SubSeq(min_candidates, 1, 1)
    ELSE SubSeq(min_candidates, Len(min_candidates), Len(min_candidates))

\* _search, lines 226-250: the order in which the digits of min_candidates
\* are tried.
BranchOrder(min_candidates, reverse) ==
    IF ~reverse THEN min_candidates
    ELSE SubSeq(Reversed(min_candidates), 1, Len(min_candidates))

\* CopyCandidates without the copy: candidates_copy = candidates.
CopyCandidates_Alias(heap, node) == [heap |-> heap, id |-> node]

\* JSON.parse(JSON.stringify(candidates)), lines 228 and 240.  The candidates
\* maps are objects: heap is the sequence of those allocated so far and a map
\* is referred to by its position in it.  The copy is a new object with the
\* same contents.
CopyCandidates(heap, node) ==
    [heap |-> Append(heap, heap[node]), id |-> Len(heap) + 1]

\* A run of _search.  heap holds the candidates maps; stk holds, innermost
\* last, the calls suspended in their loop over min_candidates:
\* [node: the call's candidates, square: min_candidates_square, vals: the
\* digits in the order tried, vi: the next one to try].  status is "run",
\* or how the outermost call ended: "found" (res is the map returned),
\* "false", or "throw".  log records, for every digit tried, the caller's
\* candidates and their contents as that iteration began.
SearchEnter(m, node, reverse) ==
    LET c == m.heap[node]
        square == MinCandidatesSquare(c)
    IN  IF MaxNrCandidates(c) = 1
        THEN [m EXCEPT !.status = "found", !.res = node, !.stk = <<>>]
        ELSE IF square = 0
        THEN [m EXCEPT !.status = "throw", !.stk = <<>>]
        ELSE [m EXCEPT !.stk = Push(@, [node |-> node, square |-> square,
                                        vals |-> BranchOrder(c[square], reverse),
                                        vi |-> 1])]

\* One iteration of the loop of the innermost call (lines 227-234 or 237-249),
\* or its `return false` (line 254) when the loop is over.  A successful
\* recursive call is returned by every caller at once (lines 231, 246).
SearchStep(m, reverse) ==
    LET f == Top(m.stk)
        rest == Pop(m.stk)
    IN  IF f.vi > Len(f.vals)
        THEN [m EXCEPT !.stk = rest,
                       !.status = IF rest = <<>> THEN "false" ELSE "run"]
        ELSE LET cp == CopyCandidates(m.heap, f.node)
                 r  == Assign(cp.heap[cp.id], f.square, f.vals[f.vi])
                 m1 == [m EXCEPT !.heap = [cp.heap EXCEPT ![cp.id] = r.c],
                                 !.stk = Push(rest, [f EXCEPT !.vi = @ + 1]),
                                 !.log = Append(@, [node |-> f.node,
                                                    candidates |-> m.heap[f.node]])]
             IN  IF r.ok
                 THEN SearchEnter(m1, cp.id, IF ~reverse THEN FALSE ELSE reverse)
                 ELSE m1

RECURSIVE RunSearch(_, _, _)
\* Up to 2^k digits tried, or until the outermost call has returned.
RunSearch(m, reverse, k) ==
    IF m.status # "run" THEN m
    ELSE IF k = 0 THEN SearchStep(m, reverse)
    ELSE RunSearch(RunSearch(m, reverse, k - 1), reverse, k - 1)

\* _search(candidates, reverse), candidates being what _get_candidates_map
\* returned: false (line 193) or a map, which becomes object 1 of the heap.
Search(candidates, reverse) ==
    IF ~candidates.ok
    THEN [heap |-> <<candidates.c>>, stk |-> <<>>, status |-> "false", res |-> 0,
          log |-> <<>>]
    ELSE RunSearch(SearchEnter([heap |-> <<candidates.c>>, stk |-> <<>>,
                                status |-> "run", res |-> 0, log |-> <<>>],
                               1, reverse),
                   reverse, LogMaxBranches)

\* ------------------------------------------------------------------------
\* solve
\* ------------------------------------------------------------------------

\* solve, line 128
NrGivens(board) ==
    Cardinality({i \in 1..Len(board) : board[i] # BLANK_CHAR /\ In(board[i], DIGITS)})

\* TooFewGivens with the comparison off by one.
TooFewGivens_OffByOne(board) == NrGivens(board) <= MIN_GIVENS

\* solve, line 129
TooFewGivens(board) == NrGivens(board) < MIN_GIVENS

RECURSIVE Concat(_, _, _)
\* solve, lines 140-143: the candidate strings of squares lo..hi concatenated.
Concat(c, lo, hi) ==
    IF lo > hi THEN <<>>
    ELSE IF lo = hi THEN c[lo]
    ELSE LET mid == (lo + hi) \div 2
         IN  Concat(c, lo, mid) \o Concat(c, mid + 1, hi)

\* What a call of solve comes to.  kind is "throw" (code: the ErrorCode),
\* "false", "solution" (solution: the string returned) or "pending" (the
\* search went beyond the model's bound).  calls lists the calls solve made;
\* given is the map handed to _search, heap and log are the search's.
Outcome(kind, code, solution, calls, given, heap, log) ==
    [kind |-> kind, code |-> code, solution |-> solution, calls |-> calls,
     given |-> given, heap |-> heap, log |-> log]

Thrown(code, calls) == Outcome("throw", code, <<>>, calls, <<>>, <<>>, <<>>)

\* solve(board, reverse)
Solve(board, reverse) ==
    IF validate_board(board) # VALID
    THEN Thrown(validate_board(board), <<"validate_board">>)
    ELSE IF TooFewGivens(board)
    THEN Thrown("ERR_GIVENS_SIZE_INSUFFICIENT", <<"validate_board">>)
    ELSE LET candidates == get_candidates_map(board)
             result == Search(candidates, reverse)
             calls == <<"validate_board", "_get_candidates_map", "_search">>
         IN  IF candidates.thrown # ""
             THEN Thrown(candidates.thrown, <<"validate_board", "_get_candidates_map">>)
             ELSE IF result.status = "throw"
             THEN Outcome("throw", "TypeError", <<>>, calls, candidates.c,
                          result.heap, result.log)
             ELSE IF result.status = "run"
             THEN Outcome("pending", "", <<>>, calls, candidates.c,
                          result.heap, result.log)
             ELSE IF result.status = "false"
             THEN Outcome("false", "", <<>>, calls, candidates.c,
                          result.heap, result.log)
             ELSE Outcome("solution", "", Concat(result.heap[result.res], 1, NR_SQUARES),
                          calls, candidates.c, result.heap, result.log)

\* ------------------------------------------------------------------------
\* generate: its helpers
\* ------------------------------------------------------------------------

\* The members of Difficulty, by name, and DIFFICULTY_MAP.
Difficulties == {"EASY", "MEDIUM", "HARD", "VERY_HARD", "INSANE", "INHUMAN"}

DIFFICULTY_MAP ==
    [EASY |-> 62, MEDIUM |-> 53, HARD |-> 44, VERY_HARD |-> 35, INSANE |-> 26,
     INHUMAN |-> 17]

\* _force_range(max, nr, min)
force_range(max, nr, min) ==
    IF nr < min THEN min
    ELSE IF nr > max THEN max
    ELSE nr

\* Math.random() is a stream of numbers x / RandMod, x in 0..RandMod-1: rnd
\* is the x drawn last and NextRandom(rnd) the x drawn next.  RandMod is
\* prime, so x * max / RandMod is an integer only for x = 0 and the floor
\* taken in floating point is the integer quotient.
RandMod == 65537

NextRandom(rnd) == (rnd * 75 + 74) % RandMod

\* What _rand_range gives when it throws (line 666): the ErrorCode member.
RANGE_UNDEFINED == "ERR_RANGE_UNDEFINED"

\* _rand_range(max, min) when Math.random() gives x / RandMod: it throws for
\* a max of 0 (`!max`), and else gives floor(x / RandMod * (max - min)) + min.
\* Callers that pass no min pass 0, its default.
rand_range(max, min, x) ==
    IF max = 0 THEN RANGE_UNDEFINED
    ELSE ((x * (max - min)) \div RandMod) + min

\* _shuffle, line 642: a slot of `shuffled` not written yet holds false.
\* The elements shuffled (squares, positions) are 1..81 here, so 0 is free
\* to stand for it.
UNFILLED == 0

\* _shuffle, lines 647-649 with ti 1-based: the first slot at ti or after
\* it, cyclically, that is not written yet.
ProbeSlot(shuffled, ti) ==
    LET open == {k \in 1..Len(shuffled) : shuffled[k] = UNFILLED}
    IN  IF \E k \in open : k >= ti
        THEN Min({k \in open : k >= ti})
        ELSE Min(open)

\* One iteration of _shuffle's loop, lines 644-652: st.i is the position in
\* seq of the element placed, st.shuffled the array, st.rnd the stream.  The
\* loop runs once for each element of seq, so seq.length is at least 1 at
\* line 645 and _rand_range does not throw.
ShuffleStep(st, seq) ==
    LET x  == NextRandom(st.rnd)
        ti == ProbeSlot(st.shuffled, rand_range(Len(seq), 0, x) + 1)
    IN  [i |-> st.i + 1,
         shuffled |-> SubSeq(st.shuffled, 1, ti - 1) \o <<seq[st.i]>>
                      \o SubSeq(st.shuffled, ti + 1, Len(seq)),
         rnd |-> x]

RECURSIVE RunShuffle(_, _, _)
\* Up to 2^k iterations of _shuffle's loop, or until seq is exhausted.
RunShuffle(st, seq, k) ==
    IF st.i > Len(seq) THEN st
    ELSE IF k = 0 THEN ShuffleStep(st, seq)
    ELSE RunShuffle(RunShuffle(st, seq, k - 1), seq, k - 1)

\* _shuffle(seq) with the random stream at rnd: the shuffled list and the
\* stream after it.  seq has at most 81 elements, fewer than 2^7.
shuffle(seq, rnd) ==
    RunShuffle([i |-> 1,
                shuffled |-> SubSeq([k \in 1..Len(seq) |-> UNFILLED], 1, Len(seq)),
                rnd |-> rnd],
               seq, 7)

\* One iteration of _strip_dups' loop, lines 681-688: seq_set gets the
\* element if it was not pushed before.
StripDupsStep(st, seq) ==
    [i |-> st.i + 1,
     seq_set |-> IF In(seq[st.i], st.seq_set) THEN st.seq_set
                 ELSE Append(st.seq_set, seq[st.i])]

RECURSIVE RunStripDups(_, _, _)
\* Up to 2^k iterations of _strip_dups' loop, or until seq is exhausted.
RunStripDups(st, seq, k) ==
    IF st.i > Len(seq) THEN st
    ELSE IF k = 0 THEN StripDupsStep(st, seq)
    ELSE RunStripDups(RunStripDups(st, seq, k - 1), seq, k - 1)

\* _strip_dups(seq), for a seq of at most 81 elements.
strip_dups(seq) == RunStripDups([i |-> 1, seq_set |-> <<>>], seq, 7).seq_set

\* generate, lines 64-69 and 75-84: the squares whose candidate string has
\* length 1, in the order of this.squares (givens_idxs), and their strings
\* (single_candidates).
SingleSquares(candidates) ==
    SelectSeq(SubSeq(squares, 1, NR_SQUARES), LAMBDA square : Len(candidates[square]) = 1)

SingleCandidates(candidates) ==
    LET givens_idxs == SingleSquares(candidates)
    IN  SubSeq([k \in 1..Len(givens_idxs) |-> candidates[givens_idxs[k]]],
               1, Len(givens_idxs))

\* generate, line 72
EnoughSingles(candidates, givens_for_difficulty) ==
    /\ Len(SingleCandidates(candidates)) >= givens_for_difficulty
    /\ Len(strip_dups(SingleCandidates(candidates))) >= 8

\* generate, lines 73-84: the board of the single candidates.
BoardOf(candidates) ==
    SubSeq([i \in 1..NR_SQUARES |->
                IF Len(candidates[i]) = 1 THEN candidates[i][1] ELSE BLANK_CHAR],
           1, NR_SQUARES)

\* generate, line 95, target 1-based
BlankAt(board, target) ==
    SubSeq(board, 1, target - 1) \o <<BLANK_CHAR>> \o SubSeq(board, target + 1, Len(board))

\* One iteration of the loop of lines 93-96: the board with the position
\* givens_idxs[st.i] blanked.
BlankStep(st, givens_idxs) ==
    [i |-> st.i + 1, board |-> BlankAt(st.board, givens_idxs[st.i])]

RECURSIVE RunBlank(_, _, _, _)
\* Up to 2^k iterations of the loop of lines 93-96, or until n givens are
\* blanked.
RunBlank(st, givens_idxs, n, k) ==
    IF st.i > n THEN st
    ELSE IF k = 0 THEN BlankStep(st, givens_idxs)
    ELSE RunBlank(RunBlank(st, givens_idxs, n, k - 1), givens_idxs, n, k - 1)

\* TrimCount with one given too many removed.
TrimCount_OneMore(nr_givens, givens_for_difficulty) ==
    nr_givens - givens_for_difficulty + 1

\* generate, line 93: the number of givens blanked.
TrimCount(nr_givens, givens_for_difficulty) == nr_givens - givens_for_difficulty

\* generate, lines 73-97: the board built from the single candidates and
\* trimmed to givens_for_difficulty givens.  untrimmed is the board before
\* the trimming and targets lists the positions blanked, in order.
Finalize(candidates, givens_for_difficulty, rnd) ==
    LET givens_idxs == SingleSquares(candidates)
        nr_givens == Len(givens_idxs)
        untrimmed == BoardOf(candidates)
    IN  IF nr_givens > givens_for_difficulty
        THEN LET sh == shuffle(givens_idxs, rnd)
                 n == TrimCount(nr_givens, givens_for_difficulty)
             IN  [untrimmed |-> untrimmed,
                  targets |-> SubSeq(sh.shuffled, 1, n),
                  board |-> RunBlank([i |-> 1, board |-> untrimmed],
                                     sh.shuffled, n, 7).board,
                  rnd |-> sh.rnd]
        ELSE [untrimmed |-> untrimmed, targets |-> <<>>, board |-> untrimmed,
              rnd |-> rnd]

\* SolveCheck with the check left out: every board passes.
SolveCheck_Unchecked(board) == "solution"

\* generate, line 100: what solve(board) comes to.
SolveCheck(board) == Solve(board, FALSE).kind

\* What one iteration of generate's loop (lines 54-104) comes to: the
\* candidates map and the random stream after it, whether it left the loop
\* by `break`, and the board it gave to solve, if any, with what solve came
\* to (attempt holds one record, or none), and the ErrorCode member that
\* _rand_range threw (thrown, "" if it threw none).
Iterated(candidates, broke, rnd, attempt, thrown) ==
    [candidates |-> candidates, broke |-> broke, rnd |-> rnd, attempt |-> attempt,
     thrown |-> thrown]

\* generate, lines 99-103, for the board fin built by lines 73-97.
Checked(candidates, fin, check) ==
    Iterated(candidates, FALSE, fin.rnd,
             <<[untrimmed |-> fin.untrimmed, targets |-> fin.targets,
                board |-> fin.board, check |-> check]>>,
             "")

\* generate, lines 99-103: solve is called on the board fin.
Finalized(candidates, fin) == Checked(candidates, fin, SolveCheck(fin.board))

\* generate, lines 60-103, after the _assign of line 58 returned assigned.
Assigned(assigned, givens_for_difficulty, rnd) ==
    IF ~assigned.ok
    THEN Iterated(assigned.c, TRUE, rnd, <<>>, "")
    ELSE IF ~EnoughSingles(assigned.c, givens_for_difficulty)
    THEN Iterated(assigned.c, FALSE, rnd, <<>>, "")
    ELSE Finalized(assigned.c, Finalize(assigned.c, givens_for_difficulty, rnd))

\* generate, lines 56-103, for `square`, when Math.random() gives
\* x / RandMod at line 56.
Drawn(candidates, square, givens_for_difficulty, x) ==
    Assigned(Assign(candidates, square,
                    candidates[square][rand_range(Len(candidates[square]), 0, x) + 1]),
             givens_for_difficulty, x)

\* generate, lines 54-104: one iteration of the loop, for `square`, when
\* rnd is the x that Math.random() drew last.  For a square without
\* candidates _rand_range throws at its guard (line 666): Math.random() is
\* not called, no board is built and solve is not called.
Iteration(candidates, square, givens_for_difficulty, rnd) ==
    IF Len(candidates[square]) = 0
    THEN Iterated(candidates, FALSE, rnd, <<>>, RANGE_UNDEFINED)
    ELSE Drawn(candidates, square, givens_for_difficulty, NextRandom(rnd))

\* ------------------------------------------------------------------------
\* Sudoku itself: what a solution is (spec.md, Glossary: a unit is a row,
\* column or 3x3 box, and must contain each digit exactly once).  These are
\* stated on rows, columns and boxes directly, not on the code's topology.
\* ------------------------------------------------------------------------

DigitSet == {"1", "2", "3", "4", "5", "6", "7", "8", "9"}

RowOf(i) == (i - 1) \div 9

ColOf(i) == (i - 1) % 9

BoxOf(i) == 3 * (RowOf(i) \div 3) + (ColOf(i) \div 3)

UnitSets ==
    {{i \in 1..81 : RowOf(i) = k} : k \in 0..8}
    \cup {{i \in 1..81 : ColOf(i) = k} : k \in 0..8}
    \cup {{i \in 1..81 : BoxOf(i) = k} : k \in 0..8}

SharesUnit(i, j) ==
    i # j /\ (RowOf(i) = RowOf(j) \/ ColOf(i) = ColOf(j) \/ BoxOf(i) = BoxOf(j))

\* s is a completely and correctly filled grid.
IsSolved(s) ==
    /\ Len(s) = 81
    /\ \A i \in 1..81 : s[i] \in DigitSet
    /\ \A U \in UnitSets : \A d \in DigitSet : Cardinality({i \in U : s[i] = d}) = 1

\* s is a valid solution of board.
IsSolutionOf(s, board) ==
    /\ IsSolved(s)
    /\ \A i \in 1..81 : board[i] \in DigitSet => s[i] = board[i]

NrBlanks(board) == Cardinality({i \in 1..Len(board) : board[i] = BLANK_CHAR})

\* The digits no given in a unit of blank square i rules out.
Free(b, i) == {d \in DigitSet : \A j \in 1..81 : SharesUnit(i, j) => b[j] # d}

RECURSIVE Fill(_)
\* Every way of filling the blank squares of b, a square at a time, with a
\* digit not yet in one of its units (plain backtracking, fewest digits
\* first).
Fill(b) ==
    LET sized == {<<Cardinality(Free(b, i)), i>> : i \in {j \in 1..81 : b[j] = BLANK_CHAR}}
    IN  IF sized = {} THEN {b}
        ELSE LET p == CHOOSE p \in sized : \A q \in sized : p[1] <= q[1]
             IN  UNION {Fill([b EXCEPT ![p[2]] = d]) : d \in Free(b, p[2])}

\* The valid solutions of a well-formed board.
Completions(board) == {s \in Fill(board) : IsSolutionOf(s, board)}

\* ------------------------------------------------------------------------
\* Boards given to solve
\* ------------------------------------------------------------------------

\* The board whose nine rows, read as decimal numbers, are rows; a 0 digit
\* is written as the character blank.
FromRows(rows, blank) ==
    [i \in 1..81 |->
        LET d == (rows[((i - 1) \div 9) + 1] \div (10 ^ (8 - ((i - 1) % 9)))) % 10
        IN  IF d = 0 THEN blank ELSE DIGITS[d]]

\* spec.md, section 8: the classic board and its solution.
ClassicRows ==
    <<3020600, 900305001, 1806400, 8102900, 700000008, 6708200, 2609500,
      800203009, 5010300>>

ClassicSolution ==
    FromRows(<<483921657, 967345821, 251876493, 548132976, 729564138, 136798245,
               372689514, 814253769, 695417382>>, BLANK_CHAR)

\* The classic board as spec.md writes it, blanks as '0', and with the blank
\* marker of the board format.
ClassicZeros == FromRows(ClassicRows, "0")

ClassicBoard == FromRows(ClassicRows, BLANK_CHAR)

\* 43 givens of the classic solution: one solution, which propagation alone
\* does not find (a branch digit fails).
BranchingBoard ==
    FromRows(<<480020057, 967345001, 250800093, 540030070, 504030, 136098005,
               70600504, 804000760, 600400382>>, BLANK_CHAR)

\* 36 givens that seed without a contradiction and have no solution.
ExhaustedBoard ==
    FromRows(<<907050, 960045021, 250800400, 500030900, 9000030, 106790040,
               70609014, 800000069, 605410300>>, BLANK_CHAR)

\* A hard board with 17 givens.
HardBoard ==
    FromRows(<<400000805, 30000000, 700000, 20000060, 80400, 10000, 603070,
               500200000, 104000000>>, BLANK_CHAR)

Blanked(b, mask) == [i \in 1..81 |-> IF i \in mask THEN BLANK_CHAR ELSE b[i]]

\* Squares of the classic solution: (2, 7, 11, 16) and (10, 17, 19, 26) are
\* two rectangles whose digits can be swapped.
BlankPool == {2, 7, 11, 16, 10, 17, 19, 26}

MaskedBoards ==
    {Blanked(ClassicSolution, mask) :
        mask \in {m \in SUBSET BlankPool : Cardinality(m) <= MaxBlanked}}

\* A given overwritten: a digit twice in a unit, or a different puzzle.
AlteredBoards ==
    {[b EXCEPT ![x[1]] = x[2]] :
        b \in {Blanked(ClassicSolution, mask) : mask \in {{}, {2}, {2, 7, 11, 16}, {1, 2, 3}}},
        x \in {<<1, "8">>, <<2, "4">>, <<81, "5">>, <<2, "5">>}}

\* n givens, those of src, in the squares from..from+n-1.
Window(src, from, n) ==
    [i \in 1..81 |-> IF i >= from /\ i < from + n THEN src[i] ELSE BLANK_CHAR]

WindowBoards ==
    {Window(src, from, n) :
        src \in {ClassicSolution, [i \in 1..81 |-> "5"]},
        from \in {1, 30, 64}, n \in MinWindow..MaxWindow}

\* Boards validate_board rejects.
MalformedBoards == {<<>>, <<"1", "2">>, ClassicZeros, SubSeq(ClassicSolution, 1, 80)}

TestBoards ==
    MaskedBoards \cup AlteredBoards \cup WindowBoards \cup MalformedBoards
    \cup {ClassicBoard, BranchingBoard, ExhaustedBoard, HardBoard, BLANK_BOARD}

\* ------------------------------------------------------------------------
\* Inputs of generate and of the assignments in any order
\* ------------------------------------------------------------------------

\* generate gives up at most MaxRetries times (line 107 calls generate
\* again, without a limit in the code).
MaxRetries == 6

\* The number of givens, assigned in any order, up to which an _assign of
\* every absent value of every square is tried.
MaxAnyOrder == 2

\* Where the stream of Math.random() starts.  From 4 generate gives up four
\* times; from 134, 171 and 295 a board it builds fails the solve check for
\* some difficulty.
Seeds == {1, 4, 134, 171, 289, 295}

\* Row A holds 1..7 and I8 is 8: A8 and A9 are forced.
RowForcedBoard == FromRows(<<123456700, 0, 0, 0, 0, 0, 0, 0, 80>>, BLANK_CHAR)

\* Row A holds 1..7 and B7 is 8: A8 and A9 are both left with 9.
RowClashBoard == FromRows(<<123456700, 800, 0, 0, 0, 0, 0, 0, 0>>, BLANK_CHAR)

\* 1 in rows B and C and in columns 1 and 2: in the first box only A3 is
\* left for it.
HiddenForcedBoard ==
    FromRows(<<0, 100000, 100, 100000000, 0, 0, 10030000, 4000, 5>>, BLANK_CHAR)

\* The same with 2 given in A3.
HiddenClashBoard ==
    FromRows(<<2000000, 100000, 100, 100000000, 0, 0, 10030000, 4000, 5>>, BLANK_CHAR)

\* 5 given twice in row A.
DirectClashBoard ==
    FromRows(<<550000000, 10000, 2, 0, 300000, 0, 0, 40, 6000000>>, BLANK_CHAR)

\* The classic board with a digit in A1 that no given of a peer excludes and
\* the solution does not have.
WrongBoard == [ClassicBoard EXCEPT ![1] = "5"]

\* Boards whose givens are assigned in every order.
AnyOrderBoards ==
    {RowForcedBoard, RowClashBoard, HiddenForcedBoard, HiddenClashBoard,
     DirectClashBoard}

\* Boards whose givens are assigned in the order of the squares from any
\* given on, forwards or backwards, cyclically.
SweepBoards == {ClassicBoard, ExhaustedBoard, HardBoard, WrongBoard}

GivenSquares(b) == {i \in 1..NR_SQUARES : In(b[i], DIGITS)}

\* ------------------------------------------------------------------------
\* Calls of _assign and _eliminate followed step by step
\* ------------------------------------------------------------------------

\* A call _assign(candidates, square, val) or _eliminate(candidates, square,
\* val).
Call(op, square, val) == [op |-> op, square |-> square, val |-> val]

\* The calls of _assign that _get_candidates_map(b) makes, in its order.
AssignScript(b) ==
    LET gs == SelectSeq(SubSeq(squares, 1, NR_SQUARES), LAMBDA s : In(b[s], DIGITS))
    IN  SubSeq([k \in 1..Len(gs) |-> Call("assign", gs[k], b[gs[k]])], 1, Len(gs))

\* Calls of _eliminate on A1: a digit that is there, the same digit again,
\* digits until 9 alone is left (which goes from the peers), 9 from a peer
\* that has lost it, and 9 from A1, which leaves A1 empty.
EliminateScript ==
    <<Call("eliminate", 1, "3"), Call("eliminate", 1, "3"),
      Call("eliminate", 1, "1"), Call("eliminate", 1, "2"),
      Call("eliminate", 1, "4"), Call("eliminate", 1, "5"),
      Call("eliminate", 1, "6"), Call("eliminate", 1, "7"),
      Call("eliminate", 1, "8"), Call("eliminate", 2, "9"),
      Call("eliminate", 1, "9")>>

\* Row A given, then digits eliminated from row B until its squares are
\* forced one after the other.
MixedScript ==
    AssignScript(RowForcedBoard)
    \o <<Call("eliminate", 10, "4"), Call("eliminate", 10, "5"),
         Call("eliminate", 10, "6"), Call("eliminate", 10, "7"),
         Call("eliminate", 11, "4"), Call("eliminate", 11, "5"),
         Call("eliminate", 12, "4"), Call("assign", 13, "1"),
         Call("assign", 13, "1"), Call("assign", 14, "1")>>

\* A digit eliminated from B1 and then assigned to it.
AbsentScript == <<Call("eliminate", 10, "4"), Call("assign", 10, "4")>>

\* The scripts of calls followed step by step.
ScriptBoards ==
    {ClassicBoard, WrongBoard, ExhaustedBoard, RowForcedBoard, RowClashBoard,
     HiddenForcedBoard, HiddenClashBoard, DirectClashBoard}

Scripts ==
    {AssignScript(b) : b \in ScriptBoards}
    \cup {EliminateScript, MixedScript, AbsentScript}

\* ------------------------------------------------------------------------
\* State
\* ------------------------------------------------------------------------

VARIABLES
    \* a call of solve
    pc,         \* "ready": about to call; "done": the call has returned
    board,      \* solve's argument board
    reverse,    \* solve's argument reverse
    result,     \* what the call came to (an Outcome), once done
    first,      \* what solve(board, false) came to, when this call is the
                \* second, reverse one of a uniqueness probe of board
    \* a call of generate
    gpc,        \* "call": generate is entered; "loop": in the loop of lines
                \* 54-104; "giveup": at line 107; "returned"; "thrown";
                \* "pending": solve was called at line 100 and its search
                \* went beyond 2^LogMaxBranches branch digits, where
                \* generate is followed no further
    difficulty,             \* generate's argument
    givens_for_difficulty,  \* its locals
    candidates,
    shuffled_squares,
    at,         \* the position in shuffled_squares of the loop's next square
    rnd,        \* the stream of Math.random()
    retries,    \* the number of times line 107 has called generate again
    attempts,   \* the boards given to solve at line 100, with what solve
                \* came to
    puzzle,     \* the board generate returned
    \* a candidates map to which givens are assigned
    given,      \* the board whose givens are assigned
    pending,    \* the squares whose given is not assigned yet
    store,      \* the candidates map
    failed,     \* an _assign returned false
    cursor,     \* 0: the givens are assigned in any order; else the square
                \* the sweep has come to
    dir,        \* the direction of the sweep, 1 or -1
    \* calls of _assign and _eliminate followed step by step
    run,        \* the run of the propagation engine: the candidates map c,
                \* the loops suspended in calls stk, and ok
    entry,      \* the candidates map as it was when the outermost call was made
    script,     \* the calls to make, one after the other
    made        \* the number of calls of script made

solveVars == <<pc, board, reverse, result, first>>

genVars ==
    <<gpc, difficulty, givens_for_difficulty, candidates, shuffled_squares, at,
      rnd, retries, attempts, puzzle>>

assignVars == <<given, pending, store, failed, cursor, dir>>

runVars == <<run, entry, script, made>>

vars == <<solveVars, genVars, assignVars, runVars>>

NoOutcome == Outcome("none", "", <<>>, <<>>, <<>>, <<>>, <<>>)

NoFirst == [kind |-> "none", solution |-> <<>>]

\* No call of solve is made.
SolveIdle ==
    /\ pc = "idle" /\ board = <<>> /\ reverse = FALSE
    /\ result = NoOutcome /\ first = NoFirst

\* No call of generate is made.
GenerateIdle ==
    /\ gpc = "idle" /\ difficulty = "EASY" /\ givens_for_difficulty = 0
    /\ candidates = <<>> /\ shuffled_squares = <<>> /\ at = 0 /\ rnd = 0
    /\ retries = 0 /\ attempts = <<>> /\ puzzle = <<>>

\* No givens are assigned.
AssignIdle ==
    /\ given = BLANK_BOARD /\ pending = {} /\ store = <<>> /\ failed = FALSE
    /\ cursor = 0 /\ dir = 1

\* No call of _assign or _eliminate is followed.
RunIdle ==
    /\ run = [c |-> <<>>, ok |-> TRUE, stk |-> <<>>] /\ entry = <<>>
    /\ script = <<>> /\ made = 0

\* ------------------------------------------------------------------------
\* Calls of solve
\* ------------------------------------------------------------------------

InitSolve ==
    /\ pc = "ready"
    /\ board \in TestBoards
    /\ reverse = FALSE
    /\ result = NoOutcome
    /\ first = NoFirst
    /\ GenerateIdle
    /\ AssignIdle
    /\ RunIdle

\* solve(board, reverse) is called and returns or throws.
CallSolve ==
    /\ pc = "ready"
    /\ result' = Solve(board, reverse)
    /\ pc' = "done"
    /\ UNCHANGED <<board, reverse, first, genVars, assignVars, runVars>>

\* The uniqueness probe: after solve(board), solve(board, true).
ProbeReverse ==
    /\ pc = "done"
    /\ ~reverse
    /\ first' = [kind |-> result.kind, solution |-> result.solution]
    /\ reverse' = TRUE
    /\ result' = NoOutcome
    /\ pc' = "ready"
    /\ UNCHANGED <<board, genVars, assignVars, runVars>>

\* The solution solve returned is given to solve in turn.
SolveSolution ==
    /\ pc = "done"
    /\ result.kind = "solution"
    /\ result.solution # board
    /\ board' = result.solution
    /\ reverse' = FALSE
    /\ result' = NoOutcome
    /\ first' = NoFirst
    /\ pc' = "ready"
    /\ UNCHANGED <<genVars, assignVars, runVars>>

NextSolve == CallSolve \/ ProbeReverse \/ SolveSolution

SpecSolve == InitSolve /\ [][NextSolve]_vars

\* ------------------------------------------------------------------------
\* Calls of generate
\* ------------------------------------------------------------------------

InitGenerate ==
    /\ gpc = "call"
    /\ difficulty \in Difficulties
    /\ rnd \in Seeds
    /\ givens_for_difficulty = 0
    /\ candidates = <<>>
    /\ shuffled_squares = <<>>
    /\ at = 0
    /\ retries = 0
    /\ attempts = <<>>
    /\ puzzle = <<>>
    /\ SolveIdle
    /\ AssignIdle
    /\ RunIdle

\* generate(difficulty) up to its loop, lines 43-53.  What
\* _get_candidates_map throws leaves generate.
GenerateEnter ==
    /\ gpc = "call"
    /\ LET sh == shuffle(squares, rnd)
       IN  /\ givens_for_difficulty' =
                  force_range(NR_SQUARES + 1, DIFFICULTY_MAP[difficulty], MIN_GIVENS)
           /\ candidates' = get_candidates_map(BLANK_BOARD).c
           /\ shuffled_squares' = sh.shuffled
           /\ rnd' = sh.rnd
    /\ at' = 1
    /\ gpc' = IF get_candidates_map(BLANK_BOARD).thrown # "" THEN "thrown" ELSE "loop"
    /\ UNCHANGED <<difficulty, retries, attempts, puzzle, solveVars, assignVars, runVars>>

\* The state after an iteration of generate's loop that came to `it`: it
\* broke out of the loop (line 59), returned the board solve solved (line
\* 101), or goes on with the next square, giving up (line 107) when there is
\* none.  A throw of solve or of _rand_range leaves generate.  When the
\* search of solve went beyond the bound it is followed to, what solve
\* returns is not known and generate is followed no further.
IterateTo(it) ==
    LET check == IF it.attempt = <<>> THEN "none" ELSE it.attempt[1].check
    IN  /\ candidates' = it.candidates
        /\ rnd' = it.rnd
        /\ attempts' = attempts \o it.attempt
        /\ gpc' = IF it.thrown # "" THEN "thrown"
                  ELSE IF it.broke THEN "giveup"
                  ELSE IF check = "solution" THEN "returned"
                  ELSE IF check = "throw" THEN "thrown"
                  ELSE IF check = "pending" THEN "pending"
                  ELSE IF at = Len(shuffled_squares) THEN "giveup"
                  ELSE "loop"
        /\ puzzle' = IF check = "solution" THEN it.attempt[1].board ELSE puzzle

\* One iteration of generate's loop, lines 54-104: a random candidate is
\* assigned to the next shuffled square; when enough squares have a single
\* candidate, the board of these is trimmed and given to solve, and returned
\* if solve returns a solution.
GenerateIterate ==
    /\ gpc = "loop"
    /\ IterateTo(Iteration(candidates, shuffled_squares[at], givens_for_difficulty,
                           rnd))
    /\ at' = at + 1
    /\ UNCHANGED <<difficulty, givens_for_difficulty, shuffled_squares, retries,
                   solveVars, assignVars, runVars>>

\* generate, line 107: give up and call generate(difficulty) again.
GenerateGiveUp ==
    /\ gpc = "giveup"
    /\ retries < MaxRetries
    /\ retries' = retries + 1
    /\ gpc' = "call"
    /\ UNCHANGED <<difficulty, givens_for_difficulty, candidates, shuffled_squares,
                   at, rnd, attempts, puzzle, solveVars, assignVars, runVars>>

NextGenerate == GenerateEnter \/ GenerateIterate \/ GenerateGiveUp

SpecGenerate == InitGenerate /\ [][NextGenerate]_vars

\* ------------------------------------------------------------------------
\* Givens assigned in any order
\* ------------------------------------------------------------------------

InitAssign ==
    /\ \/ given \in AnyOrderBoards /\ cursor = 0 /\ dir = 1
       \/ given \in SweepBoards /\ cursor \in GivenSquares(given) /\ dir \in {1, -1}
    /\ pending = GivenSquares(given)
    /\ store = AllCandidates
    /\ failed = FALSE
    /\ SolveIdle
    /\ GenerateIdle
    /\ RunIdle

\* The square the sweep assigns next: the first pending one at the cursor or
\* beyond it in the direction of the sweep, cyclically.
SweepSquare ==
    IF dir = 1
    THEN IF \E s \in pending : s >= cursor
         THEN Min({s \in pending : s >= cursor}) ELSE Min(pending)
    ELSE IF \E s \in pending : s <= cursor
         THEN Max({s \in pending : s <= cursor}) ELSE Max(pending)

\* _get_candidates_map, lines 172-176, for one given: _assign is called and
\* its failure recorded.
AssignGiven(square) ==
    LET r == Assign(store, square, given[square])
    IN  /\ store' = r.c
        /\ failed' = ~r.ok
        /\ pending' = pending \ {square}
        /\ UNCHANGED <<given, dir, solveVars, genVars, runVars>>

\* Any given that is pending is assigned.
AssignAny ==
    /\ cursor = 0
    /\ ~failed
    /\ \E square \in pending : AssignGiven(square)
    /\ UNCHANGED cursor

\* The sweep assigns its next given.
AssignSweep ==
    /\ cursor # 0
    /\ ~failed
    /\ pending # {}
    /\ AssignGiven(SweepSquare)
    /\ cursor' = SweepSquare

NextAssign == AssignAny \/ AssignSweep

SpecAssign == InitAssign /\ [][NextAssign]_vars

\* ------------------------------------------------------------------------
\* Calls of _assign and _eliminate, a loop iteration at a time
\* ------------------------------------------------------------------------

InitRun ==
    /\ script \in Scripts
    /\ made = 0
    /\ run = [c |-> AllCandidates, ok |-> TRUE, stk |-> <<>>]
    /\ entry = AllCandidates
    /\ SolveIdle
    /\ GenerateIdle
    /\ AssignIdle

\* The next call of the script is made on the candidates map the calls
\* before it left, all of which succeeded: _assign up to its loop (lines
\* 267-272), _eliminate up to its first nested call (lines 295-320).
RunCall ==
    /\ Returned(run)
    /\ run.ok
    /\ made < Len(script)
    /\ run' = IF script[made + 1].op = "assign"
              THEN CallAssign(run, script[made + 1].square, script[made + 1].val)
              ELSE CallEliminate(run, script[made + 1].square, script[made + 1].val)
    /\ entry' = run.c
    /\ made' = made + 1
    /\ UNCHANGED <<script, solveVars, genVars, assignVars>>

\* The innermost loop that is suspended makes its next iteration: the nested
\* call of that iteration is made, or the loop ends and its call returns.
RunStep ==
    /\ ~Returned(run)
    /\ run' = Step(run)
    /\ UNCHANGED <<entry, script, made, solveVars, genVars, assignVars>>

NextRun == RunCall \/ RunStep

SpecRun == InitRun /\ [][NextRun]_vars

\* The code runs a call to its end: an iteration that can be made is made.
SpecRunFair == SpecRun /\ WF_vars(RunStep)

\* ------------------------------------------------------------------------
\* Claims about solve
\* ------------------------------------------------------------------------

WellFormed(b) == Len(b) = 81 /\ \A i \in 1..81 : b[i] \in DigitSet \cup {BLANK_CHAR}

NrNonBlank(b) == Cardinality({i \in 1..Len(b) : b[i] # BLANK_CHAR})

Enumerable(b) == WellFormed(b) /\ NrBlanks(b) <= MaxEnumBlanks

\* C1: a string solve returns, for either value of reverse, is a complete
\* valid solution of its input: 81 digits, equal to the board at every
\* given, every row, column and box holding each digit exactly once.
C1_SolutionIsValid ==
    (pc = "done" /\ result.kind = "solution") => IsSolutionOf(result.solution, board)

\* C1 witness: solve(HardBoard, true) has returned a string after a search
\* in which digits were tried.
C1_Witness ==
    /\ pc = "done" /\ board = HardBoard /\ reverse
    /\ result.kind = "solution" /\ Len(result.log) > 1

\* C2: on a well-formed board with at least 17 givens solve returns a
\* solution or false and throws nothing, and it returns false exactly when
\* the board has no valid completion.
C2_FalseIffNoCompletion ==
    (pc = "done" /\ WellFormed(board) /\ NrNonBlank(board) >= 17) =>
        /\ result.kind \in {"false", "solution"}
        /\ Enumerable(board) => (result.kind = "false" <=> Completions(board) = {})

\* C2 witness: solve has returned false on a board that seeded without a
\* contradiction, after every branch digit failed.
C2_Witness ==
    /\ pc = "done" /\ board = ExhaustedBoard
    /\ result.kind = "false" /\ Len(result.log) > 1

\* C3: when solve(board) and solve(board, true) both return a solution, the
\* board has exactly one solution if the two are equal and at least two if
\* they differ.
C3_UniquenessProbe ==
    (pc = "done" /\ reverse /\ first.kind = "solution" /\ result.kind = "solution"
        /\ Enumerable(board)) =>
        /\ result.solution = first.solution => Cardinality(Completions(board)) = 1
        /\ result.solution # first.solution => Cardinality(Completions(board)) >= 2

\* C3 witness: both calls searched and returned the same solution.
C3_Witness ==
    /\ pc = "done" /\ reverse /\ first.kind = "solution" /\ result.kind = "solution"
    /\ Enumerable(board) /\ Len(result.log) > 0
    /\ result.solution = first.solution

\* The other case of C3: the two calls returned different solutions.
C3_WitnessDiffer ==
    /\ pc = "done" /\ reverse /\ first.kind = "solution" /\ result.kind = "solution"
    /\ Enumerable(board)
    /\ result.solution # first.solution

\* C4 as stated: solving the classic board written with '0' for its blank
\* cells yields the classic solution.
C4_ClassicWithZeros ==
    (pc = "done" /\ board = ClassicZeros) =>
        (result.kind = "solution" /\ result.solution = ClassicSolution)

\* C4 amended: solving the classic board written with the blank marker '.'
\* yields the classic solution; written with '0' it is rejected with
\* ERR_BOARD_CHARACTER_INVALID.
C4_ClassicWithBlanks ==
    /\ (pc = "done" /\ board = ClassicBoard) =>
            (result.kind = "solution" /\ result.solution = ClassicSolution)
    /\ (pc = "done" /\ board = ClassicZeros) =>
            (result.kind = "throw" /\ result.code = "ERR_BOARD_CHARACTER_INVALID")

\* C4 witness: solve(ClassicBoard) has returned.
C4_Witness ==
    pc = "done" /\ board = ClassicBoard /\ ~reverse /\ result.kind = "solution"

\* C7: on a well-formed board solve throws ERR_GIVENS_SIZE_INSUFFICIENT exactly
\* when fewer than 17 characters are non-blank, whatever the givens are, and
\* it throws it before _get_candidates_map or _search is called.
C7_InsufficientGivens ==
    (pc = "done" /\ WellFormed(board)) =>
        /\ NrNonBlank(board) < 17 <=>
                (result.kind = "throw" /\ result.code = "ERR_GIVENS_SIZE_INSUFFICIENT")
        /\ NrNonBlank(board) < 17 =>
                /\ ~In("_get_candidates_map", result.calls)
                /\ ~In("_search", result.calls)
                /\ result.given = <<>> /\ result.heap = <<>>

\* C7 witness: solve has thrown on 16 givens that contradict each other.
C7_Witness ==
    /\ pc = "done" /\ board = Window([i \in 1..81 |-> "5"], 1, 16)
    /\ result.kind = "throw"

\* C8: solve returns a fully filled valid board unchanged, for both values
\* of reverse.
C8_RoundTrip ==
    (pc = "done" /\ WellFormed(board) /\ IsSolved(board)) =>
        (result.kind = "solution" /\ result.solution = board)

\* C8 witness: a solved grid other than the classic one went through
\* solve(board, true).
C8_Witness ==
    /\ pc = "done" /\ reverse /\ WellFormed(board) /\ IsSolved(board)
    /\ board # ClassicSolution /\ result.kind = "solution"

\* C9: _search leaves the candidates it is given as they were: after the
\* search, the map handed to it and the map of every call that tried a
\* digit have the contents they had when each digit's iteration began.
C9_BranchIsolation ==
    (pc = "done" /\ result.kind \in {"false", "solution"}) =>
        /\ result.heap[1] = result.given
        /\ \A k \in 1..Len(result.log) :
               result.heap[result.log[k].node] = result.log[k].candidates

\* C9 witness: a search in which branches failed and the next digit of the
\* same square was tried.
C9_Witness ==
    /\ pc = "done" /\ result.kind \in {"false", "solution"}
    /\ \E j, k \in 1..Len(result.log) : j < k /\ result.log[j].node = result.log[k].node

\* ------------------------------------------------------------------------
\* Claims about generate
\* ------------------------------------------------------------------------

\* The target counts of givens as the specification lists them.
ListedTarget ==
    [EASY |-> 62, MEDIUM |-> 53, HARD |-> 44, VERY_HARD |-> 35, INSANE |-> 26,
     INHUMAN |-> 17]

Clamp(n, lo, hi) == IF n < lo THEN lo ELSE IF n > hi THEN hi ELSE n

\* The board generate gave to solve last.
LastAttempt == attempts[Len(attempts)]

\* C5: a board generate returns has exactly clamp(target, 17, 81) non-blank
\* cells, for the target listed for its difficulty; when more cells had a
\* single candidate, the trimming blanked exactly the excess number of
\* positions, all different and all holding a given before.
C5_GivenCount ==
    gpc = "returned" =>
        LET target == Clamp(ListedTarget[difficulty], 17, 81)
            count == NrNonBlank(LastAttempt.untrimmed)
            targets == LastAttempt.targets
        IN  /\ puzzle = LastAttempt.board
            /\ NrNonBlank(puzzle) = target
            /\ Len(targets) = IF count > target THEN count - target ELSE 0
            /\ \A j, k \in 1..Len(targets) : j # k => targets[j] # targets[k]
            /\ \A k \in 1..Len(targets) : LastAttempt.untrimmed[targets[k]] # BLANK_CHAR
            /\ \A i \in 1..81 :
                   puzzle[i] = IF \E k \in 1..Len(targets) : targets[k] = i
                               THEN BLANK_CHAR ELSE LastAttempt.untrimmed[i]

\* C5 witness: generate has returned a board from which it blanked givens.
C5_Witness ==
    gpc = "returned" /\ Len(LastAttempt.targets) > 1 /\ difficulty # "EASY"

\* C6: a board generate returns is well-formed and solve returns a solution
\* of it; no board that failed generate's solve check is returned.
C6_ReturnedIsSolvable ==
    gpc = "returned" =>
        /\ WellFormed(puzzle)
        /\ Solve(puzzle, FALSE).kind = "solution"
        /\ IsSolutionOf(Solve(puzzle, FALSE).solution, puzzle)
        /\ \A k \in 1..Len(attempts) :
               attempts[k].board = puzzle => attempts[k].check = "solution"

\* C6 witness: generate has returned a board with blanks after another
\* board failed its solve check.
C6_Witness ==
    /\ gpc = "returned" /\ NrBlanks(puzzle) > 0
    /\ \E k \in 1..Len(attempts) : attempts[k].check = "false"

\* In the calls of generate followed here every search of solve ends within
\* the bound it is followed to: no call is left undecided.
GenerateDecided == gpc # "pending"

\* The digits among the givens of board.
DistinctDigits(b) == {b[i] : i \in 1..Len(b)} \ {BLANK_CHAR}

\* C12: a board generate returns has at least 8 different digits among its
\* givens, also when givens were blanked to reach the target count.
C12_ReturnedHasEightDigits ==
    gpc = "returned" => Cardinality(DistinctDigits(puzzle)) >= 8

\* C12 witness: generate has returned a board with fewer than 8 different
\* digits; the board had 8 before the trimming blanked the only given of
\* one digit.
C12_Witness ==
    /\ gpc = "returned" /\ puzzle = LastAttempt.board
    /\ Cardinality(DistinctDigits(LastAttempt.untrimmed)) >= 8
    /\ Cardinality(DistinctDigits(puzzle)) < 8
    /\ \E k \in 1..Len(LastAttempt.targets) :
           \A i \in 1..NR_SQUARES :
               puzzle[i] # LastAttempt.untrimmed[LastAttempt.targets[k]]

\* ------------------------------------------------------------------------
\* Claims about the order of assignments
\* ------------------------------------------------------------------------

\* C10: the givens of a board assigned to the all-candidates map in any
\* order come to what _get_candidates_map, which assigns them in board
\* order, comes to: a contradiction in both, or the same candidates map.
C10_Confluence ==
    /\ failed => ~get_candidates_map(given).ok
    /\ (pending = {} /\ ~failed /\ given # BLANK_BOARD) =>
           /\ get_candidates_map(given).ok
           /\ store = get_candidates_map(given).c

\* C10 witness: the givens of the classic board, assigned backwards from a
\* given in the middle, have all succeeded and filled every square.
C10_Witness ==
    /\ given = ClassicBoard /\ dir = -1 /\ pending = {} /\ ~failed
    /\ \A s \in 1..NR_SQUARES : Len(store[s]) = 1
    /\ cursor # Max(GivenSquares(given))

\* The other case of C10: an assignment failed, in an order other than
\* board order, with givens still pending.
C10_WitnessFailed ==
    /\ failed /\ pending # {} /\ cursor = 0
    /\ \E s \in pending : \E t \in GivenSquares(given) \ pending : s < t

\* ------------------------------------------------------------------------
\* Claims about the calls of _assign and _eliminate
\* ------------------------------------------------------------------------

\* Every value of candidate string a is one of b.
Within(a, b) == \A i \in 1..Len(a) : In(a[i], b)

\* Every square's candidates in map c1 are among its candidates in map c0.
Shrunk(c1, c0) == \A s \in 1..NR_SQUARES : Within(c1[s], c0[s])

\* Some square has fewer candidates in map c1 than in map c0.
Removed(c1, c0) == \E s \in 1..NR_SQUARES : Len(c1[s]) < Len(c0[s])

NoCall == Call("none", 0, "")

\* The nested call that the next iteration of the innermost suspended loop
\* of run m makes, if it makes one.
NestedCall(m) ==
    LET f == Top(m.stk)
    IN  IF f.op = "assign"
        THEN IF f.i > Len(f.vals) THEN NoCall
             ELSE Call("eliminate", f.square, f.vals[f.i])
        ELSE IF f.op = "peers"
        THEN IF f.i > Len(square_peers_map[f.square]) THEN NoCall
             ELSE Call("eliminate", square_peers_map[f.square][f.i], f.vals[1])
        ELSE IF f.i > Len(square_units_map[f.square]) THEN NoCall
             ELSE LET places == {s \in 1..NR_SQUARES :
                                    /\ In(s, square_units_map[f.square][f.i])
                                    /\ In(f.vals[1], m.c[s])}
                  IN  IF Cardinality(places) = 1
                      THEN Call("assign", CHOOSE s \in places : TRUE, f.vals[1])
                      ELSE NoCall

\* What call comes to on candidates map c, run to its return.
CallResult(c, call) ==
    IF call.op = "assign" THEN Assign(c, call.square, call.val)
    ELSE Eliminate(c, call.square, call.val)

\* The nested call about to be made in run m, taken to its return, leaves
\* every candidate set within what it was, and either removes a candidate
\* from some square or leaves the map as it was; an _eliminate of a value
\* that is absent succeeds and leaves the map as it was.
NestedCallShrinks(m) ==
    LET call == NestedCall(m)
        r == CallResult(m.c, call)
    IN  call # NoCall =>
            /\ Shrunk(r.c, m.c)
            /\ Removed(r.c, m.c) \/ r.c = m.c
            /\ (call.op = "eliminate" /\ ~In(call.val, m.c[call.square])) =>
                   (r.ok /\ r.c = m.c)

\* C11: every call of _assign or _eliminate made on a map that the calls
\* before it left returns; no loop iteration adds a candidate to a square;
\* when the call has returned, with success or a contradiction, every
\* square's candidates are among those it had when the call was made; every
\* nested call removes a candidate from some square or leaves the map as it
\* was.
C11_TerminatesAndShrinks ==
    /\ [][Shrunk(run'.c, run.c)]_vars
    /\ [](Returned(run) => Shrunk(run.c, entry))
    /\ [](~Returned(run) => NestedCallShrinks(run))
    /\ (~Returned(run) ~> Returned(run))

\* C11 witness: an _assign of one of the classic board's givens has returned
\* and has removed candidates from squares other than its own, through
\* nested calls, bringing every square down to one candidate.
C11_Witness ==
    /\ script = AssignScript(ClassicBoard) /\ made > 0
    /\ Returned(run) /\ run.ok
    /\ \E s \in 1..NR_SQUARES : s # script[made].square /\ Len(run.c[s]) < Len(entry[s])
    /\ \A s \in 1..NR_SQUARES : Len(run.c[s]) = 1

\* The other case of C11: a call has returned with a contradiction after
\* nested calls removed candidates.
C11_WitnessContradiction ==
    /\ Returned(run) /\ ~run.ok /\ made > 0
    /\ \E s \in 1..NR_SQUARES : s # script[made].square /\ Len(run.c[s]) < Len(entry[s])

\* The squares that share a row, a column or a box with square s.
TwentyPeers(s) == {t \in 1..NR_SQUARES : SharesUnit(s, t)}

\* Candidates map c is consistent: no square is empty, the candidate of a
\* square that has one only is a candidate of none of its 20 peers, and
\* every digit is a candidate of some square of every unit.
Consistent(c) ==
    /\ \A s \in 1..NR_SQUARES : Len(c[s]) >= 1
    /\ \A s \in 1..NR_SQUARES :
           /\ Cardinality(TwentyPeers(s)) = 20
           /\ Len(c[s]) = 1 => \A t \in TwentyPeers(s) : ~In(c[s][1], c[t])
    /\ \A u \in UnitSets : \A d \in DigitSet : \E s \in u : In(d, c[s])

\* _assign of a value that is not a candidate of its square reports a
\* contradiction, for every value and every square of `where` in map c.
AbsentAssignFails(c, where) ==
    \A s \in where : \A d \in DigitSet :
        ~In(d, c[s]) => ~Assign(c, s, d).ok

\* The givens assigned so far.
Done == GivenSquares(given) \ pending

\* The givens assigned so far are those up to some square, assigned in any
\* order or by a forward sweep: the map is one _get_candidates_map passes
\* through.
InBoardOrder ==
    /\ cursor = 0 \/ dir = 1
    /\ \A s \in Done : \A t \in pending : s < t

\* At most MaxAnyOrder givens have been assigned, in any order.
FewInAnyOrder == cursor = 0 /\ Cardinality(Done) <= MaxAnyOrder

\* C13: after _assign calls that all succeeded, made from the map in which
\* every square holds every digit, each assigned square holds exactly its
\* digit, no square is empty, the candidate of a single-candidate square is
\* a candidate of none of its 20 peers, and every unit has a square for
\* every digit; on such a map an _assign of a value that is not a candidate
\* of its square reports a contradiction (tried for the pending givens after
\* every sequence, and for every square and value after the sequences of
\* InBoardOrder and FewInAnyOrder).
C13_SuccessIsConsistent ==
    ~failed =>
        /\ \A s \in Done : store[s] = <<given[s]>>
        /\ Consistent(store)
        /\ \A s \in pending : ~In(given[s], store[s]) => ~Assign(store, s, given[s]).ok
        /\ (InBoardOrder \/ FewInAnyOrder) => AbsentAssignFails(store, 1..NR_SQUARES)

\* C13 witness: several givens have been assigned with success, squares
\* that were not assigned have been brought down to one candidate, others
\* still have several, and the next given is not a candidate of its square.
C13_Witness ==
    /\ ~failed /\ Cardinality(GivenSquares(given) \ pending) >= 3
    /\ \E s \in 1..NR_SQUARES \ GivenSquares(given) : Len(store[s]) = 1
    /\ \E s \in 1..NR_SQUARES : Len(store[s]) > 1
    /\ \E s \in pending : ~In(given[s], store[s])

=============================================================================
